---- MODULE Spec2Model ----
(***************************************************************************)
(* Model of the guided e-mail capture and confirmation protocol of         *)
(* src/main.py (get_verified_email, send_email_with_confirmation and the   *)
(* helpers they use).                                                      *)
(*                                                                         *)
(* Text is modelled as a sequence of one-character strings, so that        *)
(* lower(), strip(), replace(" ", ""), join, substring tests and the       *)
(* regular expression of looks_like_email are computed, not assumed.       *)
(* Python's None is the value None below; "not x" is ~Truthy(x).           *)
(*                                                                         *)
(* said holds what the flow speaks once a listen or a dialog has returned, *)
(* up to its next wait; the notice listen_for_phrase itself speaks on a    *)
(* RequestError, before it returns None, is not recorded.                  *)
(***************************************************************************)
EXTENDS Naturals, Sequences, FiniteSets

VARIABLES pc, tk_available, spelled, email, recipient, subject, body,
          gui_ans, heard, said, log, sendCount, sent, gve,
          address, valid,
          city, ok, ok2, fetched,
          NEWS_CACHE, NEWS_API_KEY, now, returned, request, newsCalls

vars == <<pc, tk_available, spelled, email, recipient, subject, body,
          gui_ans, heard, said, log, sendCount, sent, gve, address, valid,
          city, ok, ok2, fetched,
          NEWS_CACHE, NEWS_API_KEY, now, returned, request, newsCalls>>

flowVars == <<pc, tk_available, spelled, email, recipient, subject, body,
              gui_ans, heard, said, log, sendCount, sent, gve>>

\* the locals of the weather branch of process_command, and the arguments
\* of the get_weather calls it made
weatherVars == <<city, ok, ok2, fetched>>

\* the news cache, the configured key, the clock reading, the value and the
\* request of the last fetch_news call, and the number of calls so far
newsVars == <<NEWS_CACHE, NEWS_API_KEY, now, returned, request, newsCalls>>

----------------------------------------------------------------------------
(* Bounds of the model *)

\* longest Transcript (number of appended pieces) of one spelling attempt
MaxSpelled == 5

\* longest string handed to the Field Validator in ValSpec
MaxAddrLen == 6

\* longest Transcript followed in NormSpec
NormLen == 2

\* number of fetch_news calls followed in NewsSpec
MaxCalls == 4

\* seconds
NEWS_CACHE_TTL == 3600

----------------------------------------------------------------------------
(* Text helpers *)

None == <<"None">>

Truthy(x) == x # None /\ x # <<>>

LowerChar(c) ==
  CASE c = "A" -> "a" [] c = "B" -> "b" [] c = "C" -> "c" [] c = "D" -> "d"
    [] c = "E" -> "e" [] c = "F" -> "f" [] c = "G" -> "g" [] c = "H" -> "h"
    [] c = "I" -> "i" [] c = "J" -> "j" [] c = "K" -> "k" [] c = "L" -> "l"
    [] c = "M" -> "m" [] c = "N" -> "n" [] c = "O" -> "o" [] c = "P" -> "p"
    [] c = "Q" -> "q" [] c = "R" -> "r" [] c = "S" -> "s" [] c = "T" -> "t"
    [] c = "U" -> "u" [] c = "V" -> "v" [] c = "W" -> "w" [] c = "X" -> "x"
    [] c = "Y" -> "y" [] c = "Z" -> "z" [] OTHER -> c

\* str.lower()
Lower(s) == [i \in 1..Len(s) |-> LowerChar(s[i])]

\* str.strip(): leading and trailing blanks removed
RECURSIVE LStrip(_)
LStrip(s) == IF s # <<>> /\ Head(s) = " " THEN LStrip(Tail(s)) ELSE s

RECURSIVE RStrip(_)
RStrip(s) ==
  IF s # <<>> /\ s[Len(s)] = " " THEN RStrip(SubSeq(s, 1, Len(s) - 1)) ELSE s

Strip(s) == RStrip(LStrip(s))

\* str.replace(" ", "")
RECURSIVE RemoveSpaces(_)
RemoveSpaces(s) ==
  IF s = <<>> THEN <<>>
  ELSE IF Head(s) = " " THEN RemoveSpaces(Tail(s))
       ELSE <<Head(s)>> \o RemoveSpaces(Tail(s))

\* "".join(pieces)
RECURSIVE Join(_)
Join(pieces) ==
  IF pieces = <<>> THEN <<>> ELSE Head(pieces) \o Join(Tail(pieces))

\* sub in s
Contains(s, sub) ==
  \E i \in 0..(Len(s) - Len(sub)) : SubSeq(s, i + 1, i + Len(sub)) = sub

----------------------------------------------------------------------------
(* Field Validator *)

\* re.match(r"[^@]+@[^@]+\.[^@]+", s): the pattern is anchored at the start
\* of s only; the match may end anywhere (i = last char of the local part,
\* j = the dot, k = last matched char).
MatchEndsAt(s, k) ==
  \E i \in 1..Len(s) : \E j \in 1..Len(s) :
     /\ i + 2 <= j - 1
     /\ j < k
     /\ k <= Len(s)
     /\ \A n \in 1..i : s[n] # "@"
     /\ s[i + 1] = "@"
     /\ \A n \in (i + 2)..(j - 1) : s[n] # "@"
     /\ s[j] = "."
     /\ \A n \in (j + 1)..k : s[n] # "@"

ReMatch(s) == \E k \in 1..Len(s) : MatchEndsAt(s, k)

\* variant: the pattern has no dot, r"[^@]+@[^@]+"
looks_like_email_NoDot(a) ==
  IF ~Truthy(a) THEN FALSE
  ELSE \E i \in 1..Len(a) :
          /\ i + 2 <= Len(a)
          /\ \A n \in 1..i : a[n] # "@"
          /\ a[i + 1] = "@"
          /\ a[i + 2] # "@"

looks_like_email(a) ==
  IF ~Truthy(a) THEN FALSE ELSE ReMatch(a)

----------------------------------------------------------------------------
(* Yes/no classification *)

\* ask_yes_no, after its listen returned ans: "True", "False" or "None"
ask_yes_no(ans) ==
  IF ~Truthy(ans) THEN "None"
  ELSE LET a == Lower(ans) IN
       IF \/ Contains(a, <<"y","e","s">>)
          \/ Contains(a, <<"y","e","a","h">>)
          \/ Contains(a, <<"y","a">>)
       THEN "True"
       ELSE IF Contains(a, <<"n","o">>) \/ Contains(a, <<"n","a","h">>)
       THEN "False"
       ELSE "None"

\* the inline test of the e-mail flow: x and "yes" in x.lower()
SaysYes(x) == Truthy(x) /\ Contains(Lower(x), <<"y","e","s">>)

----------------------------------------------------------------------------
(* Token Normalizer: the synonym sets of get_verified_email *)

\* variant: only "done" and "finish" end the spelling
DoneWords_OnlyDone == { <<"d","o","n","e">>, <<"f","i","n","i","s","h">> }

DoneWords == { <<"d","o","n","e">>, <<"f","i","n","i","s","h">>,
               <<"t","h","a","t","'","s"," ","a","l","l">>,
               <<"t","h","a","t"," ","i","s"," ","a","l","l">> }

DotWords == { <<"d","o","t">>, <<"p","e","r","i","o","d">>,
              <<"p","o","i","n","t">> }

AtWords == { <<"a","t">>, <<"a","t","t","o">>, <<"a","d","d"," ","a","t">> }

UnderscoreWords == { <<"u","n","d","e","r","s","c","o","r","e">>,
                     <<"u","n","d","e","r"," ","s","c","o","r","e">>,
                     <<"u","n","d","e","r","-","s","c","o","r","e">> }

DashWords == { <<"d","a","s","h">>, <<"h","y","p","h","e","n">>,
               <<"m","i","n","u","s">> }

\* a spoken message: its text, and the value formatted into it (if any)
Msg(text) == [msg |-> text, arg |-> <<>>]
MsgArg(text, a) == [msg |-> text, arg |-> a]

\* variant: the at-sign synonyms are not mapped
Piece_NoAtSign(p) ==
  IF p \in DotWords THEN <<".">>
  ELSE IF p \in UnderscoreWords THEN <<"_">>
  ELSE IF p \in DashWords THEN <<"-">>
  ELSE p

\* the piece appended for the normalized utterance p (p is not a Done word)
Piece(p) ==
  IF p \in DotWords THEN <<".">>
  ELSE IF p \in AtWords THEN <<"@">>
  ELSE IF p \in UnderscoreWords THEN <<"_">>
  ELSE IF p \in DashWords THEN <<"-">>
  ELSE IF Len(p) = 1 THEN p
  ELSE p

\* the acknowledgment spoken after the append
Ack(p) ==
  IF p \in DotWords THEN Msg("Added dot.")
  ELSE IF p \in AtWords THEN Msg("Added at.")
  ELSE IF p \in UnderscoreWords THEN Msg("Added underscore.")
  ELSE IF p \in DashWords THEN Msg("Added dash.")
  ELSE MsgArg("Added {p}", p)

\* variant: only the last piece is kept
Current_LastPiece(pieces) ==
  IF pieces = <<>> THEN <<>> ELSE RemoveSpaces(pieces[Len(pieces)])

\* "".join(spelled).replace(" ", "")
Current(pieces) == RemoveSpaces(Join(pieces))

----------------------------------------------------------------------------
(* What the collaborators can answer *)

\* listen_for_phrase during spelling: nothing, or a recognized phrase
SpellHeard == { None, <<"a">>, <<"a","t">>, <<"d","o","t">>,
                <<"b"," ","c">>, <<"D","o","n","e">> }

\* listen_for_phrase after a yes/no question
YesNoHeard == { None, <<"Y","e","s">>, <<"y","e","a","h">>, <<"y","a">>,
                <<"n","o">>, <<"n","a","h">>, <<"o","k">> }

\* listen_for_phrase for the subject and for the body
FreeHeard == { None, <<"h","i">> }

\* gui_confirm: True / False from the dialog, None when Tk is missing or
\* the dialog raises
GuiAnswers == IF tk_available THEN {"True", "False", "None"} ELSE {"None"}

----------------------------------------------------------------------------
(* Messages *)

SpellPrompt == Msg("Please spell the recipient's email address, letter by letter. Say 'dot' for dot, 'at' for at, and say 'done' when finished.")
NextCharPrompt == Msg("Say the next character, or say 'done' if finished.")
DidntCatch == Msg("I didn't catch that character. Please repeat the character or say 'done'.")
CancelEmpty == Msg("You didn't spell any characters. Canceling.")
InvalidRetryQ == Msg("That doesn't look like a valid email address. Do you want to spell again? Say yes to retry or no to cancel.")
TryAgain == Msg("Okay, let's try again.")
\* confirm_text, and what the voice fallback speaks: the text + " Please say yes or no."
ConfirmText(e) == MsgArg("You spelled: {email}. Is this correct?", e)
WithYesNo(m) == [msg |-> m.msg \o " Please say yes or no.", arg |-> m.arg]
ConfirmVoiceQ(e) == WithYesNo(ConfirmText(e))
\* final_text, the summary handed to gui_confirm
FinalText(r, sb, b) == MsgArg("Send email to: {recipient}\nSubject: {subject}\nMessage: {body}\n\nSend now?", <<r, sb, b>>)
NotConfirmed == Msg("Recipient not confirmed. Cancelling email.")
SubjectQ == Msg("What is the subject?")
BodyQ == Msg("What should I say in the email?")
FinalVoiceQ == Msg("Are you sure you want to send this email? Please say yes or no.")
NotSending == Msg("Okay, I will not send the email.")
SentSuccessfully == Msg("Email sent successfully.")
CouldntSend == Msg("I couldn't send the email.")
EmailSent == Msg("Email sent.")

NoSubject == <<"N","o"," ","s","u","b","j","e","c","t">>

----------------------------------------------------------------------------
(* State *)

FlowInit ==
  /\ pc = "idle"
  /\ tk_available \in BOOLEAN
  /\ spelled = <<>>
  /\ email = None
  /\ recipient = None
  /\ subject = None
  /\ body = None
  /\ gui_ans = "None"
  /\ heard = None
  /\ said = <<>>
  /\ log = {}
  /\ sendCount = 0
  /\ sent = None
  /\ gve = "NotStarted"

WeatherInit ==
  /\ city = None
  /\ ok = "unset"
  /\ ok2 = "unset"
  /\ fetched = <<>>

\* the module-level cache before the first fetch_news call; the clock has
\* some reading; the key, which only fetch_news reads, is drawn in NewsInit
\* and left unset elsewhere
NewsCacheInit ==
  /\ NEWS_CACHE = [time |-> 0, articles |-> <<>>]
  /\ now = NEWS_CACHE_TTL
  /\ returned = <<>>
  /\ request = "none"
  /\ newsCalls = 0

Init ==
  /\ FlowInit
  /\ WeatherInit
  /\ NewsCacheInit
  /\ NEWS_API_KEY = None
  /\ address = None
  /\ valid = FALSE

----------------------------------------------------------------------------
(* send_email_with_confirmation, entered from process_command *)

\* process_command reaches the "send email" branch: the workflow starts, its
\* first statement calls get_verified_email, which speaks the two prompts
\* and waits for the first spelling listen
Start ==
  /\ pc \in {"idle", "done"}
  /\ pc' = "spell"
  /\ gve' = "Active"
  /\ spelled' = <<>>
  /\ email' = None
  /\ recipient' = None
  /\ subject' = None
  /\ body' = None
  /\ gui_ans' = "None"
  /\ heard' = None
  /\ said' = <<SpellPrompt, NextCharPrompt>>
  /\ log' = {}
  /\ sendCount' = 0
  /\ sent' = None
  /\ UNCHANGED <<tk_available, address, valid, weatherVars, newsVars>>

\* variant: the "if not recipient" test is missing
Returned_NoCheck(value, before) ==
  /\ recipient' = value
  /\ gve' = IF Truthy(value) THEN "Accepted" ELSE "Cancelled"
  /\ said' = before \o <<SubjectQ>>
  /\ log' = log \cup {"speak_subject_q"}
  /\ pc' = "subject_listen"

\* get_verified_email returns value; send_email_with_confirmation goes on:
\* "if not recipient" cancels, else the subject is asked for
Returned(value, before) ==
  /\ recipient' = value
  /\ IF ~Truthy(value)
     THEN /\ gve' = "Cancelled"
          /\ said' = before \o <<NotConfirmed>>
          /\ log' = log \cup {"speak_not_confirmed"}
          /\ pc' = "done"
     ELSE /\ gve' = "Accepted"
          /\ said' = before \o <<SubjectQ>>
          /\ log' = log \cup {"speak_subject_q"}
          /\ pc' = "subject_listen"

\* variant: the Transcript is not reset
Respell_KeepTranscript(before) ==
  /\ email' = None
  /\ said' = before \o <<SpellPrompt, NextCharPrompt>>
  /\ pc' = "spell"
  /\ UNCHANGED <<spelled, recipient, gve, log>>

\* the outer loop of get_verified_email starts a new spelling attempt; the
\* candidate of the finished attempt is dead from here on (it is assigned
\* again at the next "done" before any read) and is dropped
Respell(before) ==
  /\ spelled' = <<>>
  /\ email' = None
  /\ said' = before \o <<SpellPrompt, NextCharPrompt>>
  /\ pc' = "spell"
  /\ UNCHANGED <<recipient, gve, log>>

\* variant: the "if not email" test is missing
Finish_NoEmptyCheck ==
  /\ email' = Current(spelled)
  /\ pc' = "confirm_gui"
  /\ said' = <<>>
  /\ UNCHANGED <<spelled, recipient, gve, log>>

\* after the "done" break: the candidate is computed; an empty candidate
\* cancels, any other is offered to gui_confirm
Finish ==
  /\ email' = Current(spelled)
  /\ UNCHANGED spelled
  /\ IF ~Truthy(email')
     THEN Returned(None, <<CancelEmpty>>)
     ELSE /\ pc' = "confirm_gui"
          /\ said' = <<>>
          /\ UNCHANGED <<recipient, gve, log>>

\* variant: a listen that returns nothing ends the spelling
SpellStep_SilenceEnds(part, max) ==
  /\ pc = "spell"
  /\ heard' = part
  /\ IF ~Truthy(part)
     THEN Finish
     ELSE LET p == Strip(Lower(part)) IN
          IF p \in DoneWords
          THEN Finish
          ELSE /\ Len(spelled) < max
               /\ spelled' = Append(spelled, Piece(p))
               /\ said' = <<Ack(p), NextCharPrompt>>
               /\ UNCHANGED <<pc, email, recipient, gve, log>>
  /\ UNCHANGED <<tk_available, subject, body, gui_ans, sendCount, sent,
                 address, valid, weatherVars, newsVars>>

\* one listen of the spelling loop and everything up to the next wait; the
\* model follows transcripts of at most max pieces
SpellStep(part, max) ==
  /\ pc = "spell"
  /\ heard' = part
  /\ IF ~Truthy(part)
     THEN /\ said' = <<DidntCatch, NextCharPrompt>>
          /\ UNCHANGED <<pc, spelled, email, recipient, gve, log>>
     ELSE LET p == Strip(Lower(part)) IN
          IF p \in DoneWords
          THEN Finish
          ELSE /\ Len(spelled) < max
               /\ spelled' = Append(spelled, Piece(p))
               /\ said' = <<Ack(p), NextCharPrompt>>
               /\ UNCHANGED <<pc, email, recipient, gve, log>>
  /\ UNCHANGED <<tk_available, subject, body, gui_ans, sendCount, sent,
                 address, valid, weatherVars, newsVars>>

SpellListen(part) == SpellStep(part, MaxSpelled)

\* variant: the confirmed value is returned without validation
Confirmed_NoValidation == Returned(email, <<>>)

\* variant: an invalid value restarts the spelling without the question
Confirmed_NoQuestion ==
  IF looks_like_email(email)
  THEN Returned(email, <<>>)
  ELSE /\ said' = <<SpellPrompt, NextCharPrompt>>
       /\ pc' = "spell"
       /\ UNCHANGED <<recipient, gve, log>>

\* the branch taken once the spelled value was confirmed (either channel)
Confirmed ==
  IF looks_like_email(email)
  THEN Returned(email, <<>>)
  ELSE /\ said' = <<InvalidRetryQ>>
       /\ pc' = "retry_listen"
       /\ UNCHANGED <<recipient, gve, log>>

\* variant: a "yes" of the dialog is asked again by voice
GuiConfirmRecipient_AlsoAsksVoice(ans) ==
  /\ pc = "confirm_gui"
  /\ ans \in GuiAnswers
  /\ gui_ans' = ans
  /\ IF ans = "False"
     THEN Respell(<<TryAgain>>)
     ELSE /\ said' = <<ConfirmVoiceQ(email)>>
          /\ pc' = "confirm_listen"
          /\ UNCHANGED <<spelled, email, recipient, gve, log>>
  /\ UNCHANGED <<tk_available, subject, body, heard, sendCount, sent,
                 address, valid, weatherVars, newsVars>>

\* gui_confirm(confirm_text) answers
GuiConfirmRecipient(ans) ==
  /\ pc = "confirm_gui"
  /\ ans \in GuiAnswers
  /\ gui_ans' = ans
  /\ IF ans = "True"
     THEN Confirmed /\ UNCHANGED <<spelled, email>>
     ELSE IF ans = "False"
     THEN Respell(<<TryAgain>>)
     ELSE /\ said' = <<ConfirmVoiceQ(email)>>
          /\ pc' = "confirm_listen"
          /\ UNCHANGED <<spelled, email, recipient, gve, log>>
  /\ UNCHANGED <<tk_available, subject, body, heard, sendCount, sent,
                 address, valid, weatherVars, newsVars>>

\* variant: silence counts as consent
ConfirmListen_SilenceAccepts(confirm) ==
  /\ pc = "confirm_listen"
  /\ heard' = confirm
  /\ IF ~Truthy(confirm) \/ SaysYes(confirm)
     THEN Confirmed /\ UNCHANGED <<spelled, email>>
     ELSE Respell(<<TryAgain>>)
  /\ UNCHANGED <<tk_available, subject, body, gui_ans, sendCount, sent,
                 address, valid, weatherVars, newsVars>>

\* variant: the answer is classified as ask_yes_no classifies it
ConfirmListen_AskYesNo(confirm) ==
  /\ pc = "confirm_listen"
  /\ heard' = confirm
  /\ IF ask_yes_no(confirm) = "True"
     THEN Confirmed /\ UNCHANGED <<spelled, email>>
     ELSE Respell(<<TryAgain>>)
  /\ UNCHANGED <<tk_available, subject, body, gui_ans, sendCount, sent,
                 address, valid, weatherVars, newsVars>>

\* the voice fallback of the recipient confirmation
ConfirmListen(confirm) ==
  /\ pc = "confirm_listen"
  /\ heard' = confirm
  /\ IF SaysYes(confirm)
     THEN Confirmed /\ UNCHANGED <<spelled, email>>
     ELSE Respell(<<TryAgain>>)
  /\ UNCHANGED <<tk_available, subject, body, gui_ans, sendCount, sent,
                 address, valid, weatherVars, newsVars>>

\* variant: only a heard refusal cancels, silence asks to spell again
RetryListen_SilenceRetries(retry) ==
  /\ pc = "retry_listen"
  /\ heard' = retry
  /\ IF ~Truthy(retry) \/ SaysYes(retry)
     THEN Respell(<<>>)
     ELSE Returned(None, <<>>) /\ UNCHANGED <<spelled, email>>
  /\ UNCHANGED <<tk_available, subject, body, gui_ans, sendCount, sent,
                 address, valid, weatherVars, newsVars>>

\* the answer to "Do you want to spell again?"
RetryListen(retry) ==
  /\ pc = "retry_listen"
  /\ heard' = retry
  /\ IF SaysYes(retry)
     THEN Respell(<<>>)
     ELSE Returned(None, <<>>) /\ UNCHANGED <<spelled, email>>
  /\ UNCHANGED <<tk_available, subject, body, gui_ans, sendCount, sent,
                 address, valid, weatherVars, newsVars>>

\* variant: the placeholder is missing
SubjectListen_NoDefault(u) ==
  /\ pc = "subject_listen"
  /\ heard' = u
  /\ subject' = u
  /\ said' = <<BodyQ>>
  /\ log' = log \cup {"listen_subject", "speak_body_q"}
  /\ pc' = "body_listen"
  /\ UNCHANGED <<tk_available, spelled, email, recipient, body, gui_ans,
                 sendCount, sent, gve, address, valid, weatherVars, newsVars>>

\* subject = listen_for_phrase(...) or "No subject"
SubjectListen(u) ==
  /\ pc = "subject_listen"
  /\ heard' = u
  /\ subject' = IF Truthy(u) THEN u ELSE NoSubject
  /\ said' = <<BodyQ>>
  /\ log' = log \cup {"listen_subject", "speak_body_q"}
  /\ pc' = "body_listen"
  /\ UNCHANGED <<tk_available, spelled, email, recipient, body, gui_ans,
                 sendCount, sent, gve, address, valid, weatherVars, newsVars>>

\* body = listen_for_phrase(...) or ""; then gui_confirm(final_text) is shown
BodyListen(u) ==
  /\ pc = "body_listen"
  /\ heard' = u
  /\ body' = IF Truthy(u) THEN u ELSE <<>>
  /\ said' = <<>>
  /\ log' = log \cup {"listen_body"}
  /\ pc' = "final_gui"
  /\ UNCHANGED <<tk_available, spelled, email, recipient, subject, gui_ans,
                 sendCount, sent, gve, address, valid, weatherVars, newsVars>>

\* "if send_ok": send_email_via_gmail is called, else the refusal is spoken
Decide(send_ok, events) ==
  IF send_ok
  THEN /\ sendCount' = sendCount + 1
       /\ sent' = <<recipient, subject, body>>
       /\ log' = log \cup events \cup {"send"}
       /\ said' = <<>>
       /\ pc' = "sending"
  ELSE /\ UNCHANGED <<sendCount, sent>>
       /\ log' = log \cup events \cup {"speak_not_sending"}
       /\ said' = <<NotSending>>
       /\ pc' = "done"

\* variant: the voice fallback speaks the summary
FinalGui_SpeaksSummary(ans) ==
  /\ pc = "final_gui"
  /\ ans \in GuiAnswers
  /\ gui_ans' = ans
  /\ IF ans = "True" THEN Decide(TRUE, {"gui_confirm_final"})
     ELSE IF ans = "False" THEN Decide(FALSE, {"gui_confirm_final"})
     ELSE /\ said' = <<WithYesNo(FinalText(recipient, subject, body))>>
          /\ log' = log \cup {"gui_confirm_final", "speak_final_voice_q"}
          /\ pc' = "final_listen"
          /\ UNCHANGED <<sendCount, sent>>
  /\ UNCHANGED <<tk_available, spelled, email, recipient, subject, body,
                 heard, gve, address, valid, weatherVars, newsVars>>

\* gui_confirm(final_text) answers
FinalGui(ans) ==
  /\ pc = "final_gui"
  /\ ans \in GuiAnswers
  /\ gui_ans' = ans
  /\ IF ans = "True" THEN Decide(TRUE, {"gui_confirm_final"})
     ELSE IF ans = "False" THEN Decide(FALSE, {"gui_confirm_final"})
     ELSE /\ said' = <<FinalVoiceQ>>
          /\ log' = log \cup {"gui_confirm_final", "speak_final_voice_q"}
          /\ pc' = "final_listen"
          /\ UNCHANGED <<sendCount, sent>>
  /\ UNCHANGED <<tk_available, spelled, email, recipient, subject, body,
                 heard, gve, address, valid, weatherVars, newsVars>>

\* variant: any utterance sends
FinalListen_AnyUtterance(final) ==
  /\ pc = "final_listen"
  /\ heard' = final
  /\ Decide(Truthy(final), {"listen_final"})
  /\ UNCHANGED <<tk_available, spelled, email, recipient, subject, body,
                 gui_ans, gve, address, valid, weatherVars, newsVars>>

\* the voice fallback of the final confirmation
FinalListen(final) ==
  /\ pc = "final_listen"
  /\ heard' = final
  /\ Decide(SaysYes(final), {"listen_final"})
  /\ UNCHANGED <<tk_available, spelled, email, recipient, subject, body,
                 gui_ans, gve, address, valid, weatherVars, newsVars>>

\* variant: a failed send is tried again
SendReturn_Retry(success) ==
  /\ pc = "sending"
  /\ said' = IF success THEN <<SentSuccessfully, EmailSent>>
             ELSE <<CouldntSend>>
  /\ log' = log \cup {IF success THEN "send_ok" ELSE "send_failed"}
  /\ pc' = IF success \/ sendCount >= 2 THEN "done" ELSE "sending"
  /\ sendCount' = IF success \/ sendCount >= 2 THEN sendCount
                  ELSE sendCount + 1
  /\ UNCHANGED <<tk_available, spelled, email, recipient, subject, body,
                 gui_ans, heard, sent, gve, address, valid, weatherVars, newsVars>>

\* send_email_via_gmail returns True or False (any exception gives False)
SendReturn(success) ==
  /\ pc = "sending"
  /\ said' = IF success THEN <<SentSuccessfully, EmailSent>>
             ELSE <<CouldntSend>>
  /\ log' = log \cup {IF success THEN "send_ok" ELSE "send_failed"}
  /\ pc' = "done"
  /\ UNCHANGED <<tk_available, spelled, email, recipient, subject, body,
                 gui_ans, heard, sendCount, sent, gve, address, valid,
                 weatherVars, newsVars>>

Next ==
  \/ Start
  \/ \E part \in SpellHeard : SpellListen(part)
  \/ \E ans \in {"True", "False", "None"} : GuiConfirmRecipient(ans)
  \/ \E confirm \in YesNoHeard : ConfirmListen(confirm)
  \/ \E retry \in YesNoHeard : RetryListen(retry)
  \/ \E u \in FreeHeard : SubjectListen(u)
  \/ \E u \in FreeHeard : BodyListen(u)
  \/ \E ans \in {"True", "False", "None"} : FinalGui(ans)
  \/ \E final \in YesNoHeard : FinalListen(final)
  \/ \E success \in BOOLEAN : SendReturn(success)

Spec == Init /\ [][Next]_vars

----------------------------------------------------------------------------
(* The Field Validator on its own: every string over a small alphabet *)

ValAlphabet == {"a", "b", "c", "@", "."}

ValInit ==
  /\ FlowInit
  /\ WeatherInit
  /\ NewsCacheInit
  /\ NEWS_API_KEY = None
  /\ address \in {None, <<>>}
  /\ valid = looks_like_email(address)

\* looks_like_email is applied to the address grown by one character
ValExtend(c) ==
  /\ address # None
  /\ Len(address) < MaxAddrLen
  /\ address' = Append(address, c)
  /\ valid' = looks_like_email(address')
  /\ UNCHANGED <<flowVars, weatherVars, newsVars>>

\* looks_like_email is applied to a fresh (absent or empty) address
ValReset(a) ==
  /\ address' = a
  /\ valid' = looks_like_email(a)
  /\ UNCHANGED <<flowVars, weatherVars, newsVars>>

ValNext ==
  \/ \E c \in ValAlphabet : ValExtend(c)
  \/ \E a \in {None, <<>>} : ValReset(a)

ValSpec == ValInit /\ [][ValNext]_vars

----------------------------------------------------------------------------
(* End-to-end scenario 1: a scripted spelling, no visual channel *)

Script == << <<"j">>, <<"o">>, <<"d","o","t">>, <<"s">>, <<"a","t">>,
             <<"g","m","a","i","l">>, <<"d","o","t">>, <<"c","o","m">>,
             <<"d","o","n","e">> >>

ScenYesNo == YesNoHeard \cup { <<"y","e","s">> }

ScenFree == FreeHeard \cup { <<"h","e","l","l","o">> }

ScenInit == Init /\ tk_available = FALSE

\* the next listen of the spelling loop returns the next scripted utterance,
\* or times out before it is spoken
ScenSpell ==
  /\ pc = "spell"
  /\ \E part \in {None, Script[Len(spelled) + 1]} :
        SpellStep(part, Len(Script))

ScenNext ==
  \/ Start
  \/ ScenSpell
  \/ \E ans \in {"True", "False", "None"} : GuiConfirmRecipient(ans)
  \/ \E confirm \in ScenYesNo : ConfirmListen(confirm)
  \/ \E u \in ScenFree : SubjectListen(u)
  \/ \E u \in ScenFree : BodyListen(u)
  \/ \E ans \in {"True", "False", "None"} : FinalGui(ans)
  \/ \E final \in ScenYesNo : FinalListen(final)
  \/ \E success \in BOOLEAN : SendReturn(success)

ScenSpec == ScenInit /\ [][ScenNext]_vars

----------------------------------------------------------------------------
(* The Token Normalizer on every synonym: short Transcripts, which never  *)
(* make a valid address, so the capture session is all that runs         *)

\* listen_for_phrase during spelling: nothing, each synonym of lines
\* 323-336, a letter, a chunk, and a capitalized word
NormHeard ==
  {None} \cup DotWords \cup AtWords \cup UnderscoreWords \cup DashWords
         \cup { <<"d","o","n","e">>, <<"f","i","n","i","s","h">>,
                <<"t","h","a","t","'","s"," ","a","l","l">>,
                <<"t","h","a","t"," ","i","s"," ","a","l","l">> }
         \cup { <<"a">>, <<"g","m","a","i","l">>, <<"P","e","r","i","o","d">> }

NormNext ==
  \/ Start
  \/ \E part \in NormHeard : SpellStep(part, NormLen)
  \/ \E ans \in {"True", "False", "None"} : GuiConfirmRecipient(ans)
  \/ \E confirm \in {None, <<"Y","e","s">>} : ConfirmListen(confirm)
  \/ \E retry \in {None, <<"Y","e","s">>} : RetryListen(retry)

NormSpec == Init /\ [][NormNext]_vars

----------------------------------------------------------------------------
(* The weather command of process_command *)

\* what the weather branch leaves alone
mailVars == <<tk_available, spelled, email, recipient, subject, body,
              gui_ans, log, sendCount, sent, gve, address, valid>>

\* listen_for_phrase after "Which city ...": nothing, or a city name
CityHeard == { None, <<"p","u","n","e">>, <<"g","o","a">> }

\* what get_weather finds: no API key, an answer with cod = 200, an answer
\* with another cod, or an exception of the request
WeatherOutcomes == {"no_key", "found", "not_found", "error"}

WhichCity == Msg("Which city do you want the weather for?")
DidntGetCity == Msg("I didn't get the city name.")
DidYouSayYesNo(c) == MsgArg("Did you say {city}? Please say yes or no.", c)
SayCityAgain == Msg("Okay, please say the city again.")
StillDidntCatch == Msg("I still didn't catch it. Try using the weather command again later.")
DidYouSay(c) == MsgArg("Did you say {city}?", c)
WontFetch == Msg("Okay I won't fetch the weather.")
WillTryWith(c) == MsgArg("I will try with {city}.", c)
KeyNotConfigured == Msg("Weather API key is not configured.")
CouldntFind(c) == MsgArg("I couldn't find weather for {city}.", c)
Temperature(c) == MsgArg("The temperature in {city} is {temp}°C with {desc}.", c)
CouldntFetch == Msg("I couldn't fetch the weather right now.")

\* process_command reaches the "weather" branch and asks for the city
WeatherStart ==
  /\ pc \in {"idle", "done"}
  /\ pc' = "city_listen"
  /\ city' = None
  /\ ok' = "unset"
  /\ ok2' = "unset"
  /\ fetched' = <<>>
  /\ heard' = None
  /\ said' = <<WhichCity>>
  /\ UNCHANGED <<mailVars, newsVars>>

\* the first city listen; ask_yes_no then speaks its prompt and listens
CityListen(u) ==
  /\ pc = "city_listen"
  /\ heard' = u
  /\ city' = u
  /\ IF ~Truthy(u)
     THEN said' = <<DidntGetCity>> /\ pc' = "done"
     ELSE said' = <<DidYouSayYesNo(u)>> /\ pc' = "ok_listen"
  /\ UNCHANGED <<ok, ok2, fetched, mailVars, newsVars>>

\* get_weather(c) is called, after the messages before were spoken
GetWeather(c, before) ==
  /\ fetched' = Append(fetched, c)
  /\ said' = before
  /\ pc' = "get_weather"

\* variant: an unclassified answer stops the command
OkListen_NoneStops(ans) ==
  /\ pc = "ok_listen"
  /\ heard' = ans
  /\ ok' = ask_yes_no(ans)
  /\ IF ok' = "False"
     THEN /\ said' = <<SayCityAgain>>
          /\ pc' = "city2_listen"
          /\ UNCHANGED fetched
     ELSE IF ok' = "None"
     THEN /\ said' = <<WontFetch>>
          /\ pc' = "done"
          /\ UNCHANGED fetched
     ELSE GetWeather(city, <<>>)
  /\ UNCHANGED <<city, ok2, mailVars, newsVars>>

\* ok = ask_yes_no(...) returns; "ok is False" asks for the city again,
\* "ok is None" announces the try, and otherwise get_weather is called
OkListen(ans) ==
  /\ pc = "ok_listen"
  /\ heard' = ans
  /\ ok' = ask_yes_no(ans)
  /\ IF ok' = "False"
     THEN /\ said' = <<SayCityAgain>>
          /\ pc' = "city2_listen"
          /\ UNCHANGED fetched
     ELSE IF ok' = "None"
     THEN GetWeather(city, <<WillTryWith(city)>>)
     ELSE GetWeather(city, <<>>)
  /\ UNCHANGED <<city, ok2, mailVars, newsVars>>

\* the second city listen
City2Listen(u) ==
  /\ pc = "city2_listen"
  /\ heard' = u
  /\ city' = u
  /\ IF ~Truthy(u)
     THEN said' = <<StillDidntCatch>> /\ pc' = "done"
     ELSE said' = <<DidYouSay(u)>> /\ pc' = "ok2_listen"
  /\ UNCHANGED <<ok, ok2, fetched, mailVars, newsVars>>

\* ok2 = ask_yes_no(...) returns; "ok2 is not True" gives up
Ok2Listen(ans) ==
  /\ pc = "ok2_listen"
  /\ heard' = ans
  /\ ok2' = ask_yes_no(ans)
  /\ IF ok2' # "True"
     THEN /\ said' = <<WontFetch>>
          /\ pc' = "done"
          /\ UNCHANGED fetched
     ELSE GetWeather(city, <<>>)
  /\ UNCHANGED <<city, ok, mailVars, newsVars>>

\* get_weather speaks its result and returns; the branch returns
WeatherReturn(outcome) ==
  /\ pc = "get_weather"
  /\ said' = IF outcome = "no_key" THEN <<KeyNotConfigured>>
             ELSE IF outcome = "found" THEN <<Temperature(city)>>
             ELSE IF outcome = "not_found" THEN <<CouldntFind(city)>>
             ELSE <<CouldntFetch>>
  /\ pc' = "done"
  /\ UNCHANGED <<heard, weatherVars, mailVars, newsVars>>

WeatherNext ==
  \/ WeatherStart
  \/ \E u \in CityHeard : CityListen(u)
  \/ \E ans \in YesNoHeard : OkListen(ans)
  \/ \E u \in CityHeard : City2Listen(u)
  \/ \E ans \in YesNoHeard : Ok2Listen(ans)
  \/ \E outcome \in WeatherOutcomes : WeatherReturn(outcome)

WeatherSpec == Init /\ [][WeatherNext]_vars

----------------------------------------------------------------------------
(* fetch_news and its cache *)

\* what the flow and the weather command are left with
restVars == <<pc, heard, mailVars, weatherVars>>

NewsKeyNotConfigured == Msg("News API key not configured.")

\* seconds between two readings of time.time(); the readings of one run
\* are taken as non-decreasing
Ticks == {0, 1, NEWS_CACHE_TTL - 1, NEWS_CACHE_TTL}

\* the "articles" of the data a request gives, when it raises nothing
Fetched == { <<>>, <<"a1">>, <<"a1", "a2">> }

\* the key is configured or not, for the whole run
NewsInit ==
  /\ FlowInit
  /\ WeatherInit
  /\ address = None
  /\ valid = FALSE
  /\ NewsCacheInit
  /\ NEWS_API_KEY \in {None, <<"k">>}

\* variant: a failed request stamps the cache with the time of the call
fetch_news_StampsOnFailure(d, succeeds, articles) ==
  /\ newsCalls < MaxCalls
  /\ newsCalls' = newsCalls + 1
  /\ now' = now + d
  /\ IF NEWS_CACHE.articles # <<>> /\ now' - NEWS_CACHE.time < NEWS_CACHE_TTL
     THEN /\ returned' = NEWS_CACHE.articles
          /\ request' = "none"
          /\ UNCHANGED <<NEWS_CACHE, said>>
     ELSE IF ~Truthy(NEWS_API_KEY)
     THEN /\ said' = <<NewsKeyNotConfigured>>
          /\ returned' = <<>>
          /\ request' = "none"
          /\ UNCHANGED NEWS_CACHE
     ELSE IF ~succeeds
     THEN /\ NEWS_CACHE' = [time |-> now', articles |-> NEWS_CACHE.articles]
          /\ returned' = NEWS_CACHE.articles
          /\ request' = "failed"
          /\ UNCHANGED said
     ELSE /\ NEWS_CACHE' = [time |-> now', articles |-> articles]
          /\ returned' = articles
          /\ request' = "ok"
          /\ UNCHANGED said
  /\ UNCHANGED <<NEWS_API_KEY, restVars>>

\* one call of fetch_news: the clock is read d seconds after the last
\* reading; a fresh non-empty cache is returned; else, without a key, []
\* is returned; else the request is made: it raises (connection, HTTP
\* status, JSON), or it succeeds and gives articles
fetch_news(d, succeeds, articles) ==
  /\ newsCalls < MaxCalls
  /\ newsCalls' = newsCalls + 1
  /\ now' = now + d
  /\ IF NEWS_CACHE.articles # <<>> /\ now' - NEWS_CACHE.time < NEWS_CACHE_TTL
     THEN /\ returned' = NEWS_CACHE.articles
          /\ request' = "none"
          /\ UNCHANGED <<NEWS_CACHE, said>>
     ELSE IF ~Truthy(NEWS_API_KEY)
     THEN /\ said' = <<NewsKeyNotConfigured>>
          /\ returned' = <<>>
          /\ request' = "none"
          /\ UNCHANGED NEWS_CACHE
     ELSE IF ~succeeds
     THEN /\ returned' = NEWS_CACHE.articles
          /\ request' = "failed"
          /\ UNCHANGED <<NEWS_CACHE, said>>
     ELSE /\ NEWS_CACHE' = [time |-> now', articles |-> articles]
          /\ returned' = articles
          /\ request' = "ok"
          /\ UNCHANGED said
  /\ UNCHANGED <<NEWS_API_KEY, restVars>>

NewsNext ==
  \E d \in Ticks : \E succeeds \in BOOLEAN : \E articles \in Fetched :
     fetch_news(d, succeeds, articles)

NewsSpec == NewsInit /\ [][NewsNext]_vars

----------------------------------------------------------------------------
(* Vocabulary of the properties *)

Yes == <<"y","e","s">>

\* the Confirmation Arbiter as section 4.4 describes it: the visual answer
\* g if it is a boolean, else the classification of the voice utterance u
ArbiterOutcome(g, u) ==
  IF g = "True" THEN "Confirmed"
  ELSE IF g = "False" THEN "Rejected"
  ELSE IF ask_yes_no(u) = "True" THEN "Confirmed"
  ELSE IF ask_yes_no(u) = "False" THEN "Rejected"
  ELSE "Indeterminate"

\* the final confirmation of this run has been answered
FinalDecided == "gui_confirm_final" \in log /\ pc \in {"sending", "done"}

\* the capture session is at PendingConfirmation and this step answers it
RecipientAnsweredBy(g, u) ==
  \/ pc = "confirm_gui" /\ gui_ans' = g /\ g # "None"
  \/ pc = "confirm_listen" /\ g = "None" /\ heard' = u

----------------------------------------------------------------------------
(* Properties *)

\* C1: the mail-send action is invoked only when the final confirmation is
\* Confirmed; when it is Rejected or Indeterminate the send is never invoked
\* and the "not sending" announcement is spoken.
C1_SendOnlyWhenConfirmed ==
  /\ sendCount > 0 =>
       FinalDecided /\ ArbiterOutcome(gui_ans, heard) = "Confirmed"
  /\ /\ FinalDecided
     /\ \/ ArbiterOutcome(gui_ans, heard) # "Confirmed"
        \/ gui_ans = "None" /\ ~(Truthy(heard) /\ Contains(Lower(heard), Yes))
     => /\ sendCount = 0
        /\ "send" \notin log
        /\ pc = "done"
        /\ said = <<NotSending>>

C1_Witness ==
  /\ FinalDecided
  /\ gui_ans = "None"
  /\ ArbiterOutcome(gui_ans, heard) = "Indeterminate"
  /\ said = <<NotSending>>

\* C2: get_verified_email returns no value, or the joined Transcript of the
\* last spelling attempt, which was Confirmed at PendingConfirmation of that
\* attempt and satisfies looks_like_email.
C2_ReturnedValueVerified ==
  /\ [](gve = "Cancelled" => recipient = None)
  /\ [](gve = "Accepted" =>
          recipient = Current(spelled) /\ looks_like_email(recipient))
  /\ [][gve' = "Accepted" /\ gve # "Accepted" =>
          /\ spelled' = spelled
          /\ recipient' = Current(spelled)
          /\ \E g \in {"True", "None"} :
                /\ RecipientAnsweredBy(g, heard')
                /\ ArbiterOutcome(g, heard') = "Confirmed"]_vars

C2_Witness ==
  /\ gve = "Accepted"
  /\ pc = "subject_listen"
  /\ recipient = <<"a","@","b","c",".","a">>

\* C3: at PendingConfirmation a Rejected or Indeterminate outcome leads back
\* to Spelling after the acknowledgment, without the "spell again?"
\* question, and never to Accepted or Cancelled.
C3_RejectionRespells ==
  [][\A g \in {"False", "None"} :
        RecipientAnsweredBy(g, heard')
        /\ ArbiterOutcome(g, heard') \in {"Rejected", "Indeterminate"} =>
           /\ pc' = "spell"
           /\ spelled' = <<>>
           /\ said' = <<TryAgain, SpellPrompt, NextCharPrompt>>
           /\ gve' = "Active"
           /\ recipient' = None]_vars

C3_Witness ==
  /\ pc = "spell"
  /\ gui_ans = "None"
  /\ heard = None
  /\ said = <<TryAgain, SpellPrompt, NextCharPrompt>>

\* C4 as stated: on the voice fallback, at the recipient and at the final
\* confirmation, the confirmation is taken as given exactly when the
\* utterance contains "yes", "yeah" or "ya".
C4_Original ==
  [][/\ pc = "confirm_listen" =>
          ((ask_yes_no(heard') = "True") <=> (pc' # "spell"))
     /\ pc = "final_listen" =>
          ((ask_yes_no(heard') = "True") <=> (pc' = "sending"))]_vars

\* C4 amended: on the voice fallback the confirmation is taken as given
\* exactly when an utterance was captured whose lower-cased text contains
\* "yes"; every other outcome (no utterance, "yeah", "ya", "no", "nah", ...)
\* is treated as a refusal.
C4_OnlyYesConfirms ==
  [][/\ pc = "confirm_listen" =>
          IF Truthy(heard') /\ Contains(Lower(heard'), Yes)
          THEN pc' \in {"subject_listen", "retry_listen"}
          ELSE pc' = "spell" /\ said'[1] = TryAgain
     /\ pc = "final_listen" =>
          IF Truthy(heard') /\ Contains(Lower(heard'), Yes)
          THEN pc' = "sending" /\ sendCount' = 1
          ELSE pc' = "done" /\ sendCount' = 0 /\ said' = <<NotSending>>]_vars

C4_Witness ==
  /\ pc = "spell"
  /\ gui_ans = "None"
  /\ heard = <<"y","e","a","h">>
  /\ said = <<TryAgain, SpellPrompt, NextCharPrompt>>

\* the shape of section 4.3 applied to the whole string
WholeShape(s) ==
  \E i \in 1..Len(s) : \E j \in 1..Len(s) :
     /\ i + 2 <= j - 1
     /\ j < Len(s)
     /\ s[i + 1] = "@"
     /\ s[j] = "."
     /\ \A n \in 1..Len(s) : n # i + 1 => s[n] # "@"

\* C5: looks_like_email is true exactly for the strings whose whole text is
\* non-@ characters, "@", non-@ characters, ".", non-@ characters; every
\* accepted string contains exactly one "@".
C5_WholeStringShape ==
  /\ valid <=> (address # None /\ WholeShape(address))
  /\ valid => Cardinality({n \in 1..Len(address) : address[n] = "@"}) = 1

\* a listen of the capture session returned nothing
SilentListen ==
  /\ pc \in {"spell", "confirm_listen", "retry_listen"}
  /\ heard' = None

\* the user declines at the confirmation step
Declines ==
  \E g \in {"False", "None"} :
     /\ RecipientAnsweredBy(g, heard')
     /\ ArbiterOutcome(g, heard') = "Rejected"

\* C6 as stated: a decline at the confirmation step, or a listen that
\* returns nothing, ends the session in Cancelled.
C6_Original ==
  [][gve = "Active" /\ (SilentListen \/ Declines) =>
        gve' = "Cancelled"]_vars

\* C6 amended: the session ends in Cancelled exactly on "done" with an
\* empty Transcript and on any answer without "yes" (silence included) to
\* the "spell again?" question; a decline at the confirmation step and a
\* silent listen in Spelling or at the confirmation keep the session
\* running, in Spelling.
C6_CancelOnlyByDoneOrRetryAnswer ==
  [][/\ gve = "Active" =>
          ((gve' = "Cancelled") <=>
             \/ /\ pc = "spell"
                /\ Truthy(heard')
                /\ Strip(Lower(heard')) \in DoneWords
                /\ spelled = <<>>
             \/ /\ pc = "retry_listen"
                /\ ~(Truthy(heard') /\ Contains(Lower(heard'), Yes)))
     /\ gve = "Active" /\ pc # "retry_listen" /\ (SilentListen \/ Declines) =>
          gve' = "Active" /\ pc' = "spell"]_vars

C6_Witness ==
  /\ gve = "Cancelled"
  /\ heard = None
  /\ said = <<NotConfirmed>>

\* this step hears a Done word in Spelling
HearsDone ==
  pc = "spell" /\ Truthy(heard') /\ Strip(Lower(heard')) \in DoneWords

\* C7: Done with an empty Transcript speaks the cancellation notice and
\* ends in Cancelled without any confirmation channel; Done with a
\* non-empty Transcript moves to PendingConfirmation, where the arbiter is
\* invoked with the joined value.
C7_DoneEndsSpelling ==
  /\ [][HearsDone =>
          IF spelled = <<>>
          THEN /\ gve' = "Cancelled"
               /\ pc' = "done"
               /\ recipient' = None
               /\ said' = <<CancelEmpty, NotConfirmed>>
               /\ gui_ans' = gui_ans
          ELSE /\ gve' = "Active"
               /\ pc' = "confirm_gui"
               /\ spelled' = spelled
               /\ email' = Current(spelled)]_vars
  /\ [](pc \in {"confirm_gui", "confirm_listen"} =>
          email = Current(spelled) /\ email # <<>>)
  /\ [](pc = "confirm_listen" => said = <<ConfirmVoiceQ(email)>>)

C7_Witness ==
  /\ pc = "confirm_gui"
  /\ heard = <<"D","o","n","e">>
  /\ Len(spelled) > 0

\* this step confirms the spelled value, as the program takes it
ConfirmedNow ==
  \/ pc = "confirm_gui" /\ gui_ans' = "True"
  \/ pc = "confirm_listen" /\ Truthy(heard') /\ Contains(Lower(heard'), Yes)

FinalConfirmed ==
  /\ FinalDecided
  /\ \/ gui_ans = "True"
     \/ gui_ans = "None" /\ Truthy(heard) /\ Contains(Lower(heard), Yes)

C10_NoValueStops ==
  /\ [](gve = "Cancelled" =>
          /\ pc = "done"
          /\ recipient = None
          /\ Len(said) > 0 /\ said[Len(said)] = NotConfirmed
          /\ \A n \in 1..Len(said) : said[n] \notin {SubjectQ, BodyQ}
          /\ log = {"speak_not_confirmed"}
          /\ subject = None /\ body = None
          /\ sendCount = 0)
  /\ [][gve = "Cancelled" => gve' = "Active" /\ pc' = "spell"]_vars

C10_Witness ==
  /\ gve = "Cancelled"
  /\ pc = "done"
  /\ said = <<CancelEmpty, NotConfirmed>>

\* C11: the send is invoked with the assembled draft: the recipient is the
\* value the capture session returned, the subject is the utterance of the
\* one subject listen or "No subject", the body is the utterance of the one
\* body listen or the empty string; each is listened for once.
C11_DraftIsAssembled ==
  /\ [](sendCount > 0 =>
          /\ sent = <<recipient, subject, body>>
          /\ gve = "Accepted"
          /\ sent[1] = email /\ email = Current(spelled))
  /\ [](sendCount = 0 => sent = None)
  /\ [][pc = "subject_listen" =>
          /\ pc' = "body_listen"
          /\ subject' = IF heard' = None THEN NoSubject ELSE heard'
          /\ recipient' = recipient]_vars
  /\ [][pc = "body_listen" =>
          /\ pc' = "final_gui"
          /\ body' = IF heard' = None THEN <<>> ELSE heard'
          /\ subject' = subject
          /\ recipient' = recipient]_vars
  /\ [][(pc \in {"final_gui", "final_listen", "sending"}) =>
          /\ pc' \notin {"subject_listen", "body_listen"}
          /\ subject' = subject
          /\ body' = body
          /\ recipient' = recipient]_vars

C11_Witness ==
  /\ pc = "sending"
  /\ sent = <<<<"a","@","b","c",".","a">>, NoSubject, <<>>>>

JoSGmailCom == <<"j","o",".","s","@","g","m","a","i","l",".","c","o","m">>

\* C12: for the utterances j, o, dot, s, at, gmail, dot, com, done, with no
\* visual channel and the voice answer "yes", get_verified_email ends in
\* Accepted after that one spelling attempt and returns "jo.s@gmail.com".
C12_ScenarioOne ==
  /\ [](pc \in {"confirm_gui", "confirm_listen"} =>
          email = JoSGmailCom /\ Len(spelled) = Len(Script) - 1)
  /\ [](pc = "confirm_listen" => gui_ans = "None")
  /\ [][pc = "confirm_listen" /\ heard' = Yes =>
          /\ gve' = "Accepted"
          /\ pc' = "subject_listen"
          /\ recipient' = JoSGmailCom]_vars
  /\ [](gve = "Accepted" => recipient = JoSGmailCom)
  /\ [](pc # "retry_listen")

C12_Witness ==
  /\ gve = "Accepted"
  /\ pc = "subject_listen"
  /\ heard = Yes
  /\ gui_ans = "None"
  /\ recipient = JoSGmailCom

\* C13: looks_like_email answers the documented examples as stated: "a@b.c"
\* is valid; "abc", "a@bc" and "@b.c" are invalid; an empty or absent input
\* gives false.
C13_DocumentedExamples ==
  /\ address = <<"a","@","b",".","c">> => valid = TRUE
  /\ address = <<"a","b","c">> => valid = FALSE
  /\ address = <<"a","@","b","c">> => valid = FALSE
  /\ address = <<"@","b",".","c">> => valid = FALSE
  /\ address \in {None, <<>>} => valid = FALSE

C13_Witness ==
  /\ address = <<"a","@","b",".","c">>
  /\ valid = TRUE

\* this step hears a token other than Done in Spelling
HearsPiece ==
  pc = "spell" /\ Truthy(heard') /\ Strip(Lower(heard')) \notin DoneWords

NotBlank(c) == c # " "

\* the candidate of the current attempt has been computed
CandidateKnown == pc \in {"confirm_gui", "confirm_listen", "retry_listen"}

\* C14 as stated: the live value and the final candidate equal the
\* concatenation of the appended tokens' text, in order, with nothing
\* inserted or removed.
C14_Original ==
  /\ Current(spelled) = Join(spelled)
  /\ CandidateKnown => email = Join(spelled)

\* C14 amended: every non-Done token's text is appended to the Transcript
\* as its last piece, the earlier pieces staying as they are; the live value
\* and the final candidate equal the concatenation of the pieces in order
\* with every blank removed (a multi-word chunk loses its inner blanks) and
\* no other character dropped, altered or reordered.
C14_JoinedWithoutBlanks ==
  /\ [][HearsPiece =>
          /\ Len(spelled') = Len(spelled) + 1
          /\ SubSeq(spelled', 1, Len(spelled)) = spelled
          /\ spelled'[Len(spelled')] = Piece(Strip(Lower(heard')))]_vars
  /\ [](Current(spelled) = SelectSeq(Join(spelled), NotBlank))
  /\ [](CandidateKnown => email = SelectSeq(Join(spelled), NotBlank))

C14_Witness ==
  /\ pc = "confirm_gui"
  /\ spelled = << <<"a">>, <<"@">>, <<"b"," ","c">> >>
  /\ email = <<"a","@","b","c">>

\* the synonym lists of section 4.1
SaidDone == { <<"d","o","n","e">>, <<"f","i","n","i","s","h">>,
              <<"t","h","a","t","'","s"," ","a","l","l">>,
              <<"t","h","a","t"," ","i","s"," ","a","l","l">> }
SaidDot == { <<"d","o","t">>, <<"p","e","r","i","o","d">>,
             <<"p","o","i","n","t">> }
SaidAt == { <<"a","t">>, <<"a","t","t","o">>, <<"a","d","d"," ","a","t">> }
SaidDash == { <<"d","a","s","h">>, <<"h","y","p","h","e","n">>,
              <<"m","i","n","u","s">> }

\* the token of the lower-cased trimmed utterance p: its kind and its text
Token(p) ==
  IF p \in SaidDone THEN <<"Control", <<>>>>
  ELSE IF p \in SaidDot THEN <<"Symbol", <<".">>>>
  ELSE IF p \in SaidAt THEN <<"Symbol", <<"@">>>>
  ELSE IF p \in UnderscoreWords THEN <<"Symbol", <<"_">>>>
  ELSE IF p \in SaidDash THEN <<"Symbol", <<"-">>>>
  ELSE <<"Literal", p>>

\* the acknowledgments of the spelling loop
IsAck(m) ==
  m.msg \in {"Added dot.", "Added at.", "Added underscore.", "Added dash.",
             "Added {p}"}

Acks(msgs) == {n \in 1..Len(msgs) : IsAck(msgs[n])}

\* C15: every non-empty utterance heard in Spelling yields exactly one
\* token, by the first matching rule (Done words, dot, at, underscore, dash
\* synonyms, else the utterance as a Literal); Done appends nothing and is
\* not acknowledged; every other token appends exactly one piece and is
\* acknowledged exactly once.
C15_NormalizerIsTotal ==
  [][pc = "spell" /\ Truthy(heard') =>
       LET t == Token(Strip(Lower(heard'))) IN
       IF t[1] = "Control"
       THEN /\ spelled' = spelled
            /\ Acks(said') = {}
            /\ pc' \in {"confirm_gui", "done"}
       ELSE /\ spelled' = Append(spelled, t[2])
            /\ Cardinality(Acks(said')) = 1
            /\ IsAck(said'[1])
            /\ said'[1].arg = (IF t[1] = "Literal" THEN t[2] ELSE <<>>)
            /\ pc' = "spell"]_vars

C15_Witness ==
  /\ pc = "spell"
  /\ heard = <<"P","e","r","i","o","d">>
  /\ spelled = << <<"g","m","a","i","l">>, <<".">> >>
  /\ said = <<Msg("Added dot."), NextCharPrompt>>

\* this step enters the Spelling state
EntersSpelling == pc # "spell" /\ pc' = "spell"

\* C16: at every entry into Spelling (first attempt, after a Rejected or
\* Indeterminate confirmation, after "yes" to the invalid-format question,
\* at a new call after Cancelled or Accepted) the Transcript is empty, and
\* the candidate of an attempt is made of the pieces of that attempt only.
C16_TranscriptStartsEmpty ==
  /\ [][EntersSpelling =>
          /\ spelled' = <<>>
          /\ pc \in {"idle", "done", "confirm_gui", "confirm_listen",
                     "retry_listen"}
          /\ Len(said') >= 2
          /\ said'[Len(said') - 1] = SpellPrompt
          /\ said'[Len(said')] = NextCharPrompt]_vars
  /\ [][pc = "done" /\ gve \in {"Cancelled", "Accepted"} =>
          pc' = "spell" /\ spelled' = <<>> /\ gve' = "Active"]_vars
  /\ [][(pc \in {"confirm_gui", "confirm_listen"} /\ pc' = "spell") =>
          spelled # <<>> /\ spelled' = <<>>]_vars
  /\ [][(pc = "retry_listen" /\ Truthy(heard')
          /\ Contains(Lower(heard'), Yes)) =>
          pc' = "spell" /\ spelled # <<>> /\ spelled' = <<>>]_vars
  /\ [][(pc = "spell" /\ pc' = "spell") =>
          \/ spelled' = spelled
          \/ spelled' = Append(spelled, spelled'[Len(spelled')])]_vars
  /\ [][(pc = "spell" /\ pc' = "confirm_gui") =>
          spelled' = spelled /\ email' = Current(spelled)]_vars

C16_Witness ==
  /\ pc = "spell"
  /\ spelled = <<>>
  /\ heard = <<"Y","e","s">>
  /\ gui_ans = "True"
  /\ said = <<SpellPrompt, NextCharPrompt>>

\* C17: in Spelling a listen that returns no utterance leaves the
\* Transcript (and everything but the spoken re-prompt) unchanged and stays
\* in Spelling; such a listen is possible in every Spelling state, however
\* many came before and however long the Transcript is.
C17_SilenceStaysInSpelling ==
  /\ [][pc = "spell" /\ ~Truthy(heard') =>
          /\ pc' = "spell"
          /\ spelled' = spelled
          /\ said' = <<DidntCatch, NextCharPrompt>>
          /\ UNCHANGED <<email, recipient, subject, body, gui_ans, log,
                         sendCount, sent, gve>>]_vars
  /\ [](pc = "spell" => ENABLED SpellListen(None))

C17_Witness ==
  /\ pc = "spell"
  /\ heard = None
  /\ said = <<DidntCatch, NextCharPrompt>>
  /\ Len(spelled) = 2

\* a message that asks for a spoken yes or no to a confirmation
IsYesNoPrompt(m) ==
  m.msg \in {ConfirmVoiceQ(<<>>).msg, FinalVoiceQ.msg,
             WithYesNo(FinalText(<<>>, <<>>, <<>>)).msg}

NoYesNoPrompt(msgs) == \A n \in 1..Len(msgs) : ~IsYesNoPrompt(msgs[n])

\* C18: at the recipient and at the final confirmation the visual channel
\* is asked first; a boolean answer decides alone (true Confirmed, false
\* Rejected) with no yes/no prompt and no voice listen; the voice channel is
\* used only after the visual channel gave no answer, with one listen.
C18_VisualFirst ==
  /\ [][(pc' \in {"confirm_listen", "final_listen"} /\ pc' # pc) =>
          /\ pc = (IF pc' = "confirm_listen" THEN "confirm_gui"
                   ELSE "final_gui")
          /\ gui_ans' = "None"
          /\ Len(said') = 1 /\ IsYesNoPrompt(said'[1])]_vars
  /\ [](pc \in {"confirm_listen", "final_listen"} => gui_ans = "None")
  /\ [][(pc \in {"confirm_gui", "final_gui"} /\ gui_ans' # "None") =>
          /\ heard' = heard
          /\ NoYesNoPrompt(said')
          /\ pc' \notin {"confirm_listen", "final_listen"}]_vars
  /\ [][pc = "confirm_gui" /\ gui_ans' = "True" =>
          pc' \in {"subject_listen", "retry_listen"}]_vars
  /\ [][pc = "confirm_gui" /\ gui_ans' = "False" =>
          pc' = "spell" /\ said'[1] = TryAgain]_vars
  /\ [][pc = "final_gui" /\ gui_ans' = "True" =>
          /\ pc' = "sending" /\ sendCount' = 1
          /\ log' \cap {"speak_final_voice_q", "listen_final"} = {}]_vars
  /\ [][pc = "final_gui" /\ gui_ans' = "False" =>
          /\ pc' = "done" /\ sendCount' = 0 /\ said' = <<NotSending>>
          /\ log' \cap {"speak_final_voice_q", "listen_final"} = {}]_vars
  /\ [][(pc \in {"confirm_listen", "final_listen"}) =>
          /\ pc' \notin {"confirm_listen", "final_listen", "confirm_gui",
                         "final_gui"}
          /\ gui_ans' = gui_ans]_vars

C18_Witness ==
  /\ pc = "sending"
  /\ tk_available
  /\ gui_ans = "True"
  /\ "gui_confirm_final" \in log
  /\ "listen_final" \notin log

\* C19 as stated: when the final confirmation falls back to the voice
\* channel, the question spoken before the listen is the summary question
\* (recipient, subject, body) followed by "Please say yes or no".
C19_Original ==
  pc = "final_listen" =>
     said = <<WithYesNo(FinalText(recipient, subject, body))>>

\* C19 amended: when the final confirmation falls back to the voice
\* channel, the question spoken before the one listen is the fixed sentence
\* "Are you sure you want to send this email? Please say yes or no.", which
\* names neither the recipient nor the subject nor the body.
C19_FixedFinalQuestion ==
  /\ [][pc = "final_gui" /\ gui_ans' = "None" =>
          /\ pc' = "final_listen"
          /\ said' = <<[msg |-> "Are you sure you want to send this email? Please say yes or no.",
                        arg |-> <<>>]>>
          /\ log' = log \cup {"gui_confirm_final", "speak_final_voice_q"}]_vars
  /\ [](pc = "final_listen" =>
          /\ Len(said) = 1
          /\ said[1].arg = <<>>
          /\ said[1] # WithYesNo(FinalText(recipient, subject, body))
          /\ recipient # None /\ subject # None /\ body # None)

C19_Witness ==
  /\ pc = "final_listen"
  /\ recipient = <<"a","@","b","c",".","a">>
  /\ subject = <<"h","i">>
  /\ body = <<"h","i">>
  /\ said = <<FinalVoiceQ>>

\* the outcome of a voice-only yes/no question answered by u
VoiceOutcome(u) == ArbiterOutcome("None", u)

\* C20: in the weather command get_weather is called with the first heard
\* city when the first confirmation is Confirmed or Indeterminate; after a
\* Rejected first confirmation the city is listened for once more and
\* get_weather is called only if the second confirmation is Confirmed; it
\* is called at most once per command and never when no city was heard.
C20_WeatherConfirmation ==
  /\ [][pc = "ok_listen" =>
          IF VoiceOutcome(heard') \in {"Confirmed", "Indeterminate"}
          THEN /\ pc' = "get_weather"
               /\ city' = city
               /\ fetched' = <<city>>
          ELSE /\ pc' = "city2_listen"
               /\ fetched' = <<>>]_vars
  /\ [][pc = "city2_listen" =>
          /\ fetched' = <<>>
          /\ IF Truthy(heard')
             THEN pc' = "ok2_listen" /\ city' = heard'
             ELSE pc' = "done"]_vars
  /\ [][pc = "ok2_listen" =>
          IF VoiceOutcome(heard') = "Confirmed"
          THEN pc' = "get_weather" /\ city' = city /\ fetched' = <<city>>
          ELSE pc' = "done" /\ fetched' = <<>>
               /\ said' = <<WontFetch>>]_vars
  /\ [][pc = "city_listen" =>
          /\ fetched' = <<>>
          /\ IF Truthy(heard')
             THEN pc' = "ok_listen" /\ city' = heard'
             ELSE pc' = "done" /\ said' = <<DidntGetCity>>]_vars
  /\ [][pc = "get_weather" => pc' = "done" /\ fetched' = fetched]_vars
  /\ [](Len(fetched) <= 1)
  /\ [](fetched # <<>> => Truthy(city) /\ fetched = <<city>>)

C20_Witness ==
  /\ pc = "get_weather"
  /\ ok = "None"
  /\ heard = <<"o","k">>
  /\ fetched = << <<"p","u","n","e">> >>
  /\ said = <<WillTryWith(<<"p","u","n","e">>)>>

\* the cache holds a non-empty list younger than the TTL at the reading t
FreshAt(t) ==
  NEWS_CACHE.articles # <<>> /\ t < NEWS_CACHE.time + NEWS_CACHE_TTL

\* C21: a fetch_news call made while the cache holds a non-empty list
\* younger than NEWS_CACHE_TTL returns the cached list, makes no request
\* and leaves the cache as it is; a successful fetch replaces the list and
\* the timestamp together; a failed fetch leaves the cache unchanged and
\* returns the cached list; the timestamp never decreases.
C21_NewsCache ==
  /\ [][newsCalls' # newsCalls /\ FreshAt(now') =>
          /\ returned' = NEWS_CACHE.articles
          /\ request' = "none"
          /\ NEWS_CACHE' = NEWS_CACHE]_vars
  /\ [][newsCalls' # newsCalls /\ request' = "ok" =>
          /\ NEWS_CACHE'.time = now'
          /\ NEWS_CACHE'.articles = returned']_vars
  /\ [][newsCalls' # newsCalls /\ request' = "failed" =>
          /\ NEWS_CACHE' = NEWS_CACHE
          /\ returned' = NEWS_CACHE.articles]_vars
  /\ [][NEWS_CACHE' # NEWS_CACHE => request' = "ok"]_vars
  /\ [][NEWS_CACHE'.time >= NEWS_CACHE.time]_vars
  /\ [](request # "none" => Truthy(NEWS_API_KEY))

C21_Witness ==
  /\ request = "failed"
  /\ NEWS_CACHE.articles = <<"a1">>
  /\ returned = <<"a1">>
  /\ now >= NEWS_CACHE.time + NEWS_CACHE_TTL

====
